---- MODULE Spec2Model ----
(***************************************************************************)
(* Website heartbeat monitor (heartbeat_monitor.py): the scheduling loop   *)
(* of HeartbeatMonitor.run, one check (run_check), the alert latch, the    *)
(* Gmail credential lifecycle (authenticate_gmail) and mail delivery       *)
(* (send_email).  The process is single threaded; every action below is    *)
(* one stretch of code between two points at which an interrupt signal     *)
(* (KeyboardInterrupt) can be delivered.                                   *)
(***************************************************************************)
EXTENDS Integers, Sequences, FiniteSets, TLC

(* ------------------------------ bounds --------------------------------- *)
\* number of checks (startup check included) explored
MaxChecks == 5
\* largest configured max_consecutive_failures explored
MaxThreshold == 3
\* number of successful token refreshes explored
MaxRefresh == 2
\* distance, in check intervals, of the explored expiry times from the start
Far == 20

(* ------------------------------ state ---------------------------------- *)
VARIABLES
    pc,                   \* position of the single thread of control
    phase,                \* "init" (the constructor), "startup" (run() before the try),
                          \* "loop", "handler", "ended"
    outcome,              \* how the process ended ("running" while it has not)
    authCtx,              \* caller of authenticate_gmail: "run" or "send"
    sendCtx,              \* caller of send_email: "alert" or "syserr"
    config,               \* self.config (the fields run_check reads)
    gmail_service,        \* self.gmail_service: NoService or the credential it was built from
    last_check_time,      \* self.last_check_time
    consecutive_failures, \* self.consecutive_failures
    last_alert_sent,      \* self.last_alert_sent
    is_healthy,           \* run_check's local is_healthy
    creds,                \* authenticate_gmail's local creds
    tokenFile,            \* content of gmail_token.json
    clock,                \* datetime.now(), in check intervals
    results,              \* history: classification of every probe made
    actions,              \* history: per completed incident update, "SendAlert" or "None"
    delivery,             \* history: per incident update, what became of its alert email
    authResult,           \* history: what the last authenticate_gmail call returned
    raised,               \* history: where an unexpected exception was raised
    interruptedAt,        \* history: phase in which the interrupt signal arrived
    syserrAttempts,       \* history: number of "system error" send_email calls
    probe,                \* check_website's response or exception (NoProbe outside a check)
    error_message,        \* run_check's local error_message
    configFile,           \* content of heartbeat_config.json
    backupFile,           \* content of gmail_token.json.backup
    fixResult             \* what the last run of fix_token_timezone returned

vars == <<pc, phase, outcome, authCtx, sendCtx, config, gmail_service,
          last_check_time, consecutive_failures, last_alert_sent, is_healthy,
          creds, tokenFile, clock, results, actions, delivery, authResult,
          raised, interruptedAt, syserrAttempts, probe, error_message,
          configFile, backupFile, fixResult>>

monitor == <<config, gmail_service, last_check_time, consecutive_failures,
             last_alert_sent>>
history == <<results, actions, delivery, authResult, raised, interruptedAt,
             syserrAttempts>>
probeLocals == <<probe, error_message>>
\* the files beside the token file, and the repair script's result
files == <<configFile, backupFile, fixResult>>

\* self.max_consecutive_failures: the default when the config file has no such key
DefaultThreshold == 2

NoService == [state |-> "none", gen |-> 0]

(* ---------------------- expiry strings and datetimes ------------------- *)
\* An expiry string of the token file: kind "none" (no expiry), "bad" (not
\* ISO-8601), "naive" (no offset), "zulu" (ends in Z) or "offset" (ends in
\* +hh:mm); wall is the time written, off the offset written, both in check
\* intervals.  A datetime: tz "unset" (None), "none" (naive), "aware", or
\* "error" (what fromisoformat raises).
Str(kind, wall, off) == [kind |-> kind, wall |-> wall, off |-> off]
Dt(tz, wall, off) == [tz |-> tz, wall |-> wall, off |-> off]
NoExpiryStr == Str("none", 0, 0)
BadExpiryStr == Str("bad", 0, 0)
NoExpiry == Dt("unset", 0, 0)
ParseError == Dt("error", 0, 0)

\* expiry_str[:-1] + '+00:00' when expiry_str ends with 'Z'
ZToOffset(s) == IF s.kind = "zulu" THEN Str("offset", s.wall, 0) ELSE s

\* datetime.fromisoformat
FromIsoformat(s) ==
    CASE s.kind = "naive" -> Dt("none", s.wall, 0)
      [] s.kind = "offset" -> Dt("aware", s.wall, s.off)
      [] OTHER -> ParseError

\* astimezone(timezone.utc) also for a naive datetime, which Python then
\* takes as local time (here eight hours ahead of UTC)
ToUTCAsLocal(d) ==
    IF d.tz = "none"
    THEN Dt("aware", d.wall - 8, 0)
    ELSE Dt("aware", d.wall - d.off, 0)

\* replace(tzinfo=timezone.utc) for a naive datetime, astimezone(timezone.utc)
\* for an aware one
ToUTC(d) ==
    IF d.tz = "none"
    THEN Dt("aware", d.wall, 0)
    ELSE Dt("aware", d.wall - d.off, 0)

\* datetime.isoformat
Isoformat(d) ==
    IF d.tz = "none" THEN Str("naive", d.wall, 0) ELSE Str("offset", d.wall, d.off)

\* .replace('+00:00', 'Z')
OffsetToZ(s) == IF s.kind = "offset" /\ s.off = 0 THEN Str("zulu", s.wall, 0) ELSE s

\* creds.expiry as authenticate_gmail sets it from token_data['expiry']: left
\* None when there is no expiry or when parsing raises (a warning is logged)
ParseExpiry(s) ==
    IF s.kind = "none" THEN NoExpiry
    ELSE LET d == FromIsoformat(ZToOffset(s))
         IN  IF d = ParseError THEN NoExpiry ELSE ToUTC(d)

\* expiry_str as authenticate_gmail computes it from creds.expiry after a refresh
ExpiryString(d) ==
    IF d = NoExpiry THEN NoExpiryStr ELSE OffsetToZ(Isoformat(ToUTC(d)))

\* creds.valid of the credentials library: the token is present and not
\* expired; expiry is compared with a naive utcnow(), and Python raises
\* TypeError when a naive datetime is compared with an aware one
CredsValid(c, now) ==
    IF ~c.token THEN "invalid"
    ELSE IF c.expiry = NoExpiry THEN "valid"
    ELSE IF c.expiry.tz = "aware" THEN "TypeError"
    ELSE IF now >= c.expiry.wall THEN "invalid" ELSE "valid"

\* is_valid: False when creds.valid raises TypeError
IsValid(c, now) == CredsValid(c, now) = "valid"

(* ------------------------------- the token file ------------------------ *)
TokenJson(gen, token, expiry, writer) ==
    [state |-> "token", gen |-> gen, token |-> token, expiry |-> expiry,
     writer |-> writer]
AbsentFile == [TokenJson(0, FALSE, NoExpiryStr, "none") EXCEPT !.state = "absent"]
\* the file holds the credential of generation gen
Holds(file, gen) == file.state = "token" /\ file.gen = gen

NoCreds == [state |-> "none", gen |-> 0, token |-> FALSE, expiry |-> NoExpiry]
\* self.last_check_time = None; a set time t is <<t>>
NoTime == <<>>
\* no probe is being evaluated
NoProbe == [kind |-> "none"]
\* error_message = None
NoMessage == "none"

\* the config file's max_consecutive_failures: an integer >= 1 (AlertConfig's
\* failureThreshold), or a value of a type that does not compare with an int
\* (a JSON string or null), which load_config does not reject
Configs ==
    [max_consecutive_failures : 1..MaxThreshold, threshold_type : {"int"}]
        \cup {[max_consecutive_failures |-> DefaultThreshold, threshold_type |-> "str"]}

(* ------------------------------ load_config ---------------------------- *)
\* a parsed config file.  recipient_email is "missing", "empty_str",
\* "empty_list", "placeholder_str" ("your-email@example.com"),
\* "placeholder_list" (["your-email@example.com"]), "address_str",
\* "address_list" or "number" (neither string nor list); sender_email is
\* "missing", "empty_str", "template" ("your-email@gmail.com"),
\* "your_sender" ("your-sender@example.com") or "address"
ConfigJson(r, s, c) ==
    [state |-> "json", recipient_email |-> r, sender_email |-> s,
     max_consecutive_failures |-> c.max_consecutive_failures,
     threshold_type |-> c.threshold_type]

DefaultSetting == [max_consecutive_failures |-> DefaultThreshold, threshold_type |-> "int"]

\* default_config, the template load_config writes when the file is missing
TemplateConfig == ConfigJson("placeholder_list", "template", DefaultSetting)

MissingConfig == [TemplateConfig EXCEPT !.state = "missing"]
\* a config file that is not JSON
GarbledConfig == [TemplateConfig EXCEPT !.state = "garbled"]
\* self.config before load_config has returned
NoConfig == [TemplateConfig EXCEPT !.state = "unset"]

RecipientValues ==
    {"missing", "empty_str", "empty_list", "placeholder_str", "placeholder_list",
     "address_str", "address_list", "number"}
SenderValues == {"missing", "empty_str", "template", "your_sender", "address"}

\* the config files explored: an edited file with every threshold setting, the
\* edited file with one of the two addresses replaced by every other value,
\* the unedited template, no file, and a file that does not parse
ConfigFiles ==
    {ConfigJson("address_list", "address", c) : c \in Configs}
        \cup {ConfigJson(r, "address", DefaultSetting) : r \in RecipientValues}
        \cup {ConfigJson("address_list", s, DefaultSetting) : s \in SenderValues}
        \cup {TemplateConfig, MissingConfig, GarbledConfig}

\* the validation loop of load_config without its "not config[key]" test
ConfigErrorNoEmptyTest(cfg) ==
    \/ cfg.recipient_email \in {"missing", "empty_list"}
    \/ cfg.recipient_email \in {"placeholder_str", "number"}
    \/ cfg.sender_email \in {"missing", "your_sender"}

\* the validation loop of load_config raises ValueError: a key is missing or
\* falsy; recipient_email is the placeholder string, or neither a string nor a
\* list; sender_email equals "your-sender@example.com"
ConfigError(cfg) ==
    \/ cfg.recipient_email \in {"missing", "empty_str", "empty_list"}
    \/ cfg.recipient_email \in {"placeholder_str", "number"}
    \/ cfg.sender_email \in {"missing", "empty_str"}
    \/ cfg.sender_email = "your_sender"

\* the expiry strings explored: none, unparseable, and a past and a future
\* time in naive, Zulu and offset form
ExpiryStrings ==
    {NoExpiryStr, BadExpiryStr}
        \cup {Str(k, w, 0) : k \in {"naive", "zulu"}, w \in {-Far, Far}}
        \cup {Str("offset", w, o) : w \in {-Far, Far}, o \in {-5, 0, 3}}

\* every token file explored: none, or one with or without an access token
\* and with any of the expiry strings
AllTokenFiles ==
    {AbsentFile} \cup {TokenJson(0, t, e, "external") : t \in BOOLEAN, e \in ExpiryStrings}

\* the token files the monitor is started with: none, one without expiry, and
\* one with a Zulu expiry in the future
TokenFiles ==
    {AbsentFile, TokenJson(0, TRUE, NoExpiryStr, "external"),
     TokenJson(0, TRUE, Str("zulu", Far, 0), "external")}

Init ==
    /\ pc = "load_config"
    /\ phase = "init"
    /\ outcome = "running"
    /\ authCtx = "run"
    /\ sendCtx = "alert"
    /\ config = NoConfig
    /\ configFile \in ConfigFiles
    /\ backupFile = AbsentFile
    /\ fixResult = "none"
    /\ probe = NoProbe
    /\ error_message = NoMessage
    /\ gmail_service = NoService
    /\ last_check_time = NoTime
    /\ consecutive_failures = 0
    /\ last_alert_sent = FALSE
    /\ is_healthy = FALSE
    /\ creds = NoCreds
    /\ tokenFile \in TokenFiles
    /\ clock = 0
    /\ results = <<>>
    /\ actions = <<>>
    /\ delivery = <<>>
    /\ authResult = "none"
    /\ raised = "none"
    /\ interruptedAt = "none"
    /\ syserrAttempts = 0

(* ----------------------- run_check: the incident latch ----------------- *)
\* max_failures, as run_check reads it from the config
MaxFailures(cfg) == cfg.max_consecutive_failures

\* the two branches of the classification taken the wrong way round
FailuresAfterInverted(healthy, cf) == IF healthy THEN cf + 1 ELSE 0

\* a counter that stops counting once the alert of the incident was sent
FailuresAfterFrozen(healthy, cf) ==
    IF healthy THEN 0 ELSE IF last_alert_sent THEN cf ELSE cf + 1

\* consecutive_failures after a check with the given classification
FailuresAfter(healthy, cf) == IF healthy THEN 0 ELSE cf + 1

\* recovery that forgets to re-arm the latch
LatchAfterResultKept(healthy, las) == las

\* last_alert_sent after the healthy / unhealthy branch, before any alert
LatchAfterResult(healthy, las) == IF healthy THEN FALSE ELSE las

\* the alert condition without the latch
ShouldAlertNoLatch(cf, max_failures, las) == cf >= max_failures

\* the alert condition without the threshold
ShouldAlertNoThreshold(cf, max_failures, las) == ~las

\* the alert condition one failure early
ShouldAlertEarly(cf, max_failures, las) == cf + 1 >= max_failures /\ ~las

\* the alert condition one failure late
ShouldAlertLate(cf, max_failures, las) == cf > max_failures /\ ~las

\* the condition under which run_check calls send_alert_email
ShouldAlert(cf, max_failures, las) == cf >= max_failures /\ ~las

\* the latch set only when the alert email was delivered
LatchAfterAlertIfSent(sent) == sent

\* last_alert_sent after send_alert_email has returned; sent is send_email's result
LatchAfterAlert(sent) == TRUE

\* the comparison consecutive_failures >= max_failures raises TypeError
ComparisonRaises(cfg) == cfg.threshold_type # "int"

(* ----------------------- exceptions and the interrupt ------------------ *)
\* a scheduling loop without its except Exception clause
CatchExceptionEscapes(ph) ==
    [pc |-> "done", phase |-> "ended", outcome |-> "failed_to_start"]

\* where an exception raised inside run_check lands: the startup check runs
\* outside run()'s try and is caught by main(); a scheduled check runs inside it
CatchException(ph) ==
    IF ph = "startup"
    THEN [pc |-> "done", phase |-> "ended", outcome |-> "failed_to_start"]
    ELSE [pc |-> "handler", phase |-> "handler", outcome |-> "running"]

\* a scheduling loop without its except KeyboardInterrupt clause
InterruptOutcomeUncaught(ph, p) ==
    IF ph = "handler" /\ p # "handler" THEN "error_exit" ELSE "interrupt_escaped"

\* how the process ends when KeyboardInterrupt is delivered in phase ph at p:
\* only run()'s try has an except KeyboardInterrupt clause; the handler's inner
\* try has a bare except; main() catches Exception only
InterruptOutcome(ph, p) ==
    CASE ph = "loop" -> "stopped"
      [] ph = "handler" /\ p # "handler" -> "error_exit"
      [] OTHER -> "interrupt_escaped"

\* a scheduling loop that starts the next check without sleeping
EndCheckNoSleep ==
    /\ pc' = "check"
    /\ phase' = "loop"
    /\ outcome' = outcome

\* run_check has returned: the scheduling loop sleeps
EndCheck ==
    /\ pc' = "sleep"
    /\ phase' = "loop"
    /\ outcome' = outcome

\* send_email returns ok to its caller
SendReturn(ok) ==
    IF sendCtx = "alert"
    THEN /\ delivery' = [delivery EXCEPT ![Len(delivery)] = IF ok THEN "sent" ELSE "failed"]
         /\ last_alert_sent' = LatchAfterAlert(ok)
         /\ EndCheck
    ELSE /\ pc' = "done"
         /\ phase' = "ended"
         /\ outcome' = "error_exit"
         /\ UNCHANGED <<delivery, last_alert_sent>>

\* authenticate_gmail returns True: run() goes on to the startup check,
\* send_email goes on to build and submit the message
AuthOk ==
    /\ authResult' = "ok"
    /\ pc' = IF authCtx = "run" THEN "check" ELSE "deliver"
    /\ UNCHANGED <<phase, outcome, delivery, last_alert_sent>>

\* an authentication failure, as an exception leaving authenticate_gmail
AuthFailedRaises ==
    /\ authResult' = "failed"
    /\ pc' = "done"
    /\ phase' = "ended"
    /\ outcome' = IF phase = "startup" THEN "failed_to_start" ELSE "error_exit"
    /\ delivery' = IF authCtx = "send" /\ sendCtx = "alert"
                   THEN [delivery EXCEPT ![Len(delivery)] = "failed"]
                   ELSE delivery
    /\ UNCHANGED last_alert_sent

\* authenticate_gmail returns False (token file missing, or the exception of
\* any step caught and logged): run() ignores the result, send_email returns
\* False in turn
AuthFailed ==
    /\ authResult' = "failed"
    /\ IF authCtx = "run"
       THEN /\ pc' = "check"
            /\ UNCHANGED <<phase, outcome, delivery, last_alert_sent>>
       ELSE SendReturn(FALSE)

(* ----------------------------- authenticate_gmail ---------------------- *)
\* a token file cut short by a failed write
Corrupt == [TokenJson(0, FALSE, NoExpiryStr, "none") EXCEPT !.state = "corrupt"]

\* the token file is opened and parsed, creds is made and its validity judged
AuthLoad ==
    /\ pc = "auth_load"
    /\ IF tokenFile.state # "token"
       THEN /\ AuthFailed
            /\ UNCHANGED creds
       ELSE /\ creds' = [state |-> "loaded", gen |-> tokenFile.gen,
                          token |-> tokenFile.token,
                          expiry |-> ParseExpiry(tokenFile.expiry)]
            /\ pc' = IF IsValid(creds', clock) THEN "auth_build" ELSE "auth_refresh"
            /\ UNCHANGED <<phase, outcome, delivery, last_alert_sent, authResult>>
    /\ UNCHANGED <<authCtx, sendCtx, config, gmail_service, last_check_time,
                   consecutive_failures, is_healthy, tokenFile, clock, results,
                   actions, raised, interruptedAt, syserrAttempts>>
    /\ UNCHANGED <<probeLocals, files>>

\* creds.refresh(Request()): the library sets a new token and a naive UTC
\* expiry one interval ahead, or no expiry when the response names none
AuthRefresh ==
    /\ pc = "auth_refresh"
    /\ \/ /\ creds.gen < MaxRefresh
          /\ \E e \in {NoExpiry, Dt("none", clock + 1, 0)} :
                 creds' = [state |-> "refreshed", gen |-> creds.gen + 1,
                           token |-> TRUE, expiry |-> e]
          /\ pc' = "auth_save"
          /\ UNCHANGED <<phase, outcome, delivery, last_alert_sent, authResult>>
       \/ /\ AuthFailed
          /\ UNCHANGED creds
    /\ UNCHANGED <<authCtx, sendCtx, config, gmail_service, last_check_time,
                   consecutive_failures, is_healthy, tokenFile, clock, results,
                   actions, raised, interruptedAt, syserrAttempts>>
    /\ UNCHANGED <<probeLocals, files>>

\* a write whose failure is logged and ignored, as save_token_to_json does
AuthSaveSwallow ==
    /\ pc = "auth_save"
    /\ tokenFile' \in {TokenJson(creds.gen, creds.token, ExpiryString(creds.expiry),
                                 "refresh"), tokenFile, Corrupt}
    /\ pc' = "auth_build"
    /\ UNCHANGED <<phase, outcome, delivery, last_alert_sent, authResult>>
    /\ UNCHANGED <<authCtx, sendCtx, config, gmail_service, last_check_time,
                   consecutive_failures, is_healthy, creds, clock, results,
                   actions, raised, interruptedAt, syserrAttempts>>
    /\ UNCHANGED <<probeLocals, files>>

\* the refreshed token is written to the token file
AuthSave ==
    /\ pc = "auth_save"
    /\ \/ /\ tokenFile' = TokenJson(creds.gen, creds.token, ExpiryString(creds.expiry),
                                   "refresh")
          /\ pc' = "auth_build"
          /\ UNCHANGED <<phase, outcome, delivery, last_alert_sent, authResult>>
       \/ /\ tokenFile' \in {tokenFile, Corrupt}
          /\ AuthFailed
    /\ UNCHANGED <<authCtx, sendCtx, config, gmail_service, last_check_time,
                   consecutive_failures, is_healthy, creds, clock, results,
                   actions, raised, interruptedAt, syserrAttempts>>
    /\ UNCHANGED <<probeLocals, files>>

\* build('gmail', 'v1', credentials=creds)
AuthBuild ==
    /\ pc = "auth_build"
    /\ \/ /\ gmail_service' = [state |-> "built", gen |-> creds.gen]
          /\ AuthOk
       \/ /\ AuthFailed
          /\ UNCHANGED gmail_service
    /\ UNCHANGED <<authCtx, sendCtx, config, last_check_time,
                   consecutive_failures, is_healthy, creds, tokenFile, clock,
                   results, actions, raised, interruptedAt, syserrAttempts>>
    /\ UNCHANGED <<probeLocals, files>>

(* --------------------------------- send_email -------------------------- *)
\* a send_email that authenticates before every message
SendEmailReauth ==
    /\ pc = "send_email"
    /\ pc' = "auth_load"
    /\ authCtx' = "send"
    /\ authResult' = "none"
    /\ UNCHANGED <<phase, outcome, sendCtx, monitor, is_healthy, creds, tokenFile,
                   clock, results, actions, delivery, raised, interruptedAt,
                   syserrAttempts>>
    /\ UNCHANGED <<probeLocals, files>>

\* send_email is entered: authenticate first when no service has been built
SendEmail ==
    /\ pc = "send_email"
    /\ IF gmail_service = NoService
       THEN /\ pc' = "auth_load"
            /\ authCtx' = "send"
            /\ authResult' = "none"
       ELSE /\ pc' = "deliver"
            /\ UNCHANGED <<authCtx, authResult>>
    /\ UNCHANGED <<phase, outcome, sendCtx, monitor, is_healthy, creds, tokenFile,
                   clock, results, actions, delivery, raised, interruptedAt,
                   syserrAttempts>>
    /\ UNCHANGED <<probeLocals, files>>

\* the message is built and submitted; any failure is caught and reported
Deliver ==
    /\ pc = "deliver"
    /\ \E ok \in BOOLEAN : SendReturn(ok)
    /\ UNCHANGED <<authCtx, sendCtx, config, gmail_service, last_check_time,
                   consecutive_failures, is_healthy, creds, tokenFile, clock,
                   results, actions, authResult, raised, interruptedAt,
                   syserrAttempts>>
    /\ UNCHANGED <<probeLocals, files>>

(* ---------------------------------- run_check -------------------------- *)
\* the status code check_website accepts
OkStatus == 200
\* the body length above which a 200 response without the marker is accepted
MinContent == 1000

\* what requests.get returns: a status code, whether the body holds 'C2SMART',
\* and the length of the body (a body with the marker is not empty)
Responses ==
    {r \in [kind : {"response"}, status : {OkStatus, 404, 503}, marker : BOOLEAN,
            length : {0, 50, MinContent, MinContent + 1}] :
        r.marker => r.length > 0}

\* an exception with the classes it is an instance of (besides Exception) and
\* what its text contains: "dns" (Name or service not known), "refused"
\* (Connection refused) or neither
Exc(classes, detail) == [kind |-> "exception", classes |-> classes, detail |-> detail]

\* what requests.get raises: ReadTimeout, ConnectTimeout, ConnectionError
\* (three texts), SSLError (a ConnectionError), TooManyRedirects, another
\* RequestException, and an exception that is no RequestException
Exceptions ==
    {Exc({"Timeout", "RequestException"}, "other"),
     Exc({"ConnectionError", "Timeout", "RequestException"}, "other"),
     Exc({"ConnectionError", "RequestException"}, "dns"),
     Exc({"ConnectionError", "RequestException"}, "refused"),
     Exc({"ConnectionError", "RequestException"}, "other"),
     Exc({"SSLError", "ConnectionError", "RequestException"}, "other"),
     Exc({"TooManyRedirects", "RequestException"}, "other"),
     Exc({"RequestException"}, "other"),
     Exc({}, "other")}

Probes == Responses \cup Exceptions

\* the except clauses of check_website without the last one
ExceptHandlersNoCatchAll ==
    <<"Timeout", "ConnectionError", "SSLError", "TooManyRedirects", "RequestException">>

\* the except clauses of check_website, in the order written
ExceptHandlers ==
    <<"Timeout", "ConnectionError", "SSLError", "TooManyRedirects", "RequestException",
      "Exception">>

\* the first except clause that matches the exception; 0 when none does
FirstHandler(e) ==
    LET matching == {i \in 1..Len(ExceptHandlers) :
                        ExceptHandlers[i] \in e.classes \cup {"Exception"}}
    IN  IF matching = {} THEN 0
        ELSE CHOOSE i \in matching : \A j \in matching : i <= j

\* the reason text the clause returns
HandlerReason(e) ==
    LET h == ExceptHandlers[FirstHandler(e)]
    IN  CASE h = "Timeout" -> "timeout"
          [] h = "ConnectionError" ->
                 IF e.detail = "dns" THEN "dns"
                 ELSE IF e.detail = "refused" THEN "refused"
                 ELSE "connection_error"
          [] h = "SSLError" -> "ssl"
          [] h = "TooManyRedirects" -> "too_many_redirects"
          [] h = "RequestException" -> "request_exception"
          [] OTHER -> "unknown_error"

\* a health test that accepts a body of exactly the minimum length
HealthyResponseInclusive(r) ==
    r.status = OkStatus /\ (r.marker \/ r.length >= MinContent)

\* the response is classified healthy
HealthyResponse(r) ==
    r.status = OkStatus /\ (r.marker \/ r.length > MinContent)

\* what check_website returns for the probe: (is_healthy, error_message), or
\* the exception when no clause catches it
CheckWebsiteResult(p) ==
    IF p.kind = "response"
    THEN [raises |-> FALSE, healthy |-> HealthyResponse(p),
          reason |-> IF HealthyResponse(p) THEN NoMessage
                     ELSE IF p.status = OkStatus THEN "incomplete_content"
                     ELSE "status_code"]
    ELSE IF FirstHandler(p) = 0
         THEN [raises |-> TRUE, healthy |-> FALSE, reason |-> NoMessage]
         ELSE [raises |-> FALSE, healthy |-> FALSE, reason |-> HandlerReason(p)]

\* last_check_time is set and check_website classifies the probe
CheckWebsite ==
    /\ pc = "check"
    /\ last_check_time' = <<clock>>
    /\ \E p \in Probes :
           LET r == CheckWebsiteResult(p)
           IN  /\ probe' = p
               /\ is_healthy' = r.healthy
               /\ error_message' = r.reason
               /\ IF r.raises
                  THEN /\ pc' = CatchException(phase).pc
                       /\ phase' = CatchException(phase).phase
                       /\ outcome' = CatchException(phase).outcome
                       /\ raised' = IF phase = "startup" THEN "startup_check"
                                    ELSE "scheduled_check"
                       /\ results' = results
                  ELSE /\ pc' = "track"
                       /\ results' = Append(results, IF r.healthy THEN "Healthy"
                                                     ELSE "Unhealthy")
                       /\ UNCHANGED <<phase, outcome, raised>>
    /\ UNCHANGED <<authCtx, sendCtx, config, gmail_service,
                   consecutive_failures, last_alert_sent, creds, tokenFile, clock,
                   actions, delivery, authResult, interruptedAt,
                   syserrAttempts, files>>

\* the incident state is updated and, at the threshold, send_alert_email is
\* called; check_website's result is not read again
Track ==
    /\ pc = "track"
    /\ consecutive_failures' = FailuresAfter(is_healthy, consecutive_failures)
    /\ IF ~is_healthy /\ ComparisonRaises(config)
       THEN /\ pc' = CatchException(phase).pc
            /\ phase' = CatchException(phase).phase
            /\ outcome' = CatchException(phase).outcome
            /\ raised' = IF phase = "startup" THEN "startup_check" ELSE "scheduled_check"
            /\ UNCHANGED <<last_alert_sent, sendCtx, actions, delivery>>
       ELSE /\ raised' = raised
            /\ IF ~is_healthy /\ ShouldAlert(consecutive_failures', MaxFailures(config),
                                            last_alert_sent)
               THEN /\ actions' = Append(actions, "SendAlert")
                    /\ delivery' = Append(delivery, "pending")
                    /\ pc' = "send_email"
                    /\ sendCtx' = "alert"
                    /\ UNCHANGED <<phase, outcome, last_alert_sent>>
               ELSE /\ actions' = Append(actions, "None")
                    /\ delivery' = Append(delivery, "none")
                    /\ last_alert_sent' = LatchAfterResult(is_healthy, last_alert_sent)
                    /\ sendCtx' = sendCtx
                    /\ EndCheck
    /\ UNCHANGED <<authCtx, config, gmail_service, last_check_time, is_healthy,
                   creds, tokenFile, clock, results, authResult, interruptedAt,
                   syserrAttempts>>
    /\ probe' = NoProbe
    /\ error_message' = NoMessage
    /\ UNCHANGED files

(* ------------------------------------- run ----------------------------- *)
\* a load_config that goes on with the template it has just written
LoadConfigNoExit ==
    /\ pc = "load_config"
    /\ IF configFile.state = "missing"
       THEN /\ configFile' = TemplateConfig
            /\ config' = TemplateConfig
            /\ pc' = "auth_load"
            /\ phase' = "startup"
            /\ outcome' = outcome
       ELSE /\ configFile' = configFile
            /\ IF configFile.state = "garbled" \/ ConfigError(configFile)
               THEN /\ pc' = "done"
                    /\ phase' = "ended"
                    /\ outcome' = "failed_to_start"
                    /\ config' = config
               ELSE /\ pc' = "auth_load"
                    /\ phase' = "startup"
                    /\ outcome' = outcome
                    /\ config' = configFile
    /\ UNCHANGED <<authCtx, sendCtx, gmail_service, last_check_time,
                   consecutive_failures, last_alert_sent, is_healthy, creds,
                   tokenFile, clock, history, probeLocals, backupFile, fixResult>>

\* main() constructs the monitor: load_config writes the template and exits
\* with status 1 when the file is missing, raises (main() prints "Failed to
\* start" and exits with status 1) when the file does not parse or does not
\* validate, and otherwise returns the config; run() then starts
LoadConfig ==
    /\ pc = "load_config"
    /\ IF configFile.state = "missing"
       THEN /\ configFile' = TemplateConfig
            /\ pc' = "done"
            /\ phase' = "ended"
            /\ outcome' = "config_created"
            /\ config' = config
       ELSE /\ configFile' = configFile
            /\ IF configFile.state = "garbled" \/ ConfigError(configFile)
               THEN /\ pc' = "done"
                    /\ phase' = "ended"
                    /\ outcome' = "failed_to_start"
                    /\ config' = config
               ELSE /\ pc' = "auth_load"
                    /\ phase' = "startup"
                    /\ outcome' = outcome
                    /\ config' = configFile
    /\ UNCHANGED <<authCtx, sendCtx, gmail_service, last_check_time,
                   consecutive_failures, last_alert_sent, is_healthy, creds,
                   tokenFile, clock, history, probeLocals, backupFile, fixResult>>

\* the exit status of the process is not 0
ExitNonZero(o) == o \in {"config_created", "failed_to_start", "interrupt_escaped"}

\* time.sleep(check_interval) returns and the next check starts
Sleep ==
    /\ pc = "sleep"
    /\ Len(results) < MaxChecks
    /\ clock' = clock + 1
    /\ pc' = "check"
    /\ UNCHANGED <<phase, outcome, authCtx, sendCtx, monitor, is_healthy, creds,
                   tokenFile, history>>
    /\ UNCHANGED <<probeLocals, files>>

\* except Exception: the error is logged and the "system error" email is sent
Handler ==
    /\ pc = "handler"
    /\ syserrAttempts' = syserrAttempts + 1
    /\ sendCtx' = "syserr"
    /\ pc' = "send_email"
    /\ UNCHANGED <<phase, outcome, authCtx, monitor, is_healthy, creds, tokenFile,
                   clock, results, actions, delivery, authResult, raised,
                   interruptedAt>>
    /\ UNCHANGED <<probeLocals, files>>

\* KeyboardInterrupt is delivered and unwinds the stack (the locals of the
\* check are gone); an interrupted write leaves the file as it was or truncated
Interrupt ==
    /\ pc # "done"
    /\ interruptedAt' = phase
    /\ outcome' = InterruptOutcome(phase, pc)
    /\ pc' = "done"
    /\ phase' = "ended"
    /\ tokenFile' \in IF pc = "auth_save" THEN {tokenFile, Corrupt} ELSE {tokenFile}
    /\ UNCHANGED <<authCtx, sendCtx, monitor, is_healthy, creds, clock, results,
                   actions, delivery, authResult, raised, syserrAttempts>>
    /\ probe' = NoProbe
    /\ error_message' = NoMessage
    /\ UNCHANGED files

Next ==
    \/ LoadConfig
    \/ AuthLoad
    \/ AuthRefresh
    \/ AuthSave
    \/ AuthBuild
    \/ SendEmail
    \/ Deliver
    \/ CheckWebsite
    \/ Track
    \/ Sleep
    \/ Handler
    \/ Interrupt

Spec == Init /\ [][Next]_vars

(* ------------------- the token file outside the monitor ---------------- *)
\* token_data['expiry'] as fix_token_timezone rewrites it
FixedExpiry(s) == OffsetToZ(Isoformat(ToUTC(FromIsoformat(ZToOffset(s)))))

\* fix_token_timezone(), run while the monitor is not running: returns False
\* when the file is missing, does not parse, or holds an expiry that
\* fromisoformat rejects; otherwise rewrites the expiry, writes token_data to
\* the backup file and then to the token file.  A failing write leaves the
\* later file as it was, or cut short.
FixTokenTimezone ==
    /\ pc = "load_config"
    /\ IF tokenFile.state # "token"
          \/ (tokenFile.expiry.kind # "none"
                 /\ FromIsoformat(ZToOffset(tokenFile.expiry)) = ParseError)
       THEN /\ fixResult' = "failed"
            /\ UNCHANGED <<tokenFile, backupFile>>
       ELSE LET token_data ==
                    IF tokenFile.expiry.kind = "none"
                    THEN [tokenFile EXCEPT !.writer = "fix_token_timezone"]
                    ELSE [tokenFile EXCEPT !.expiry = FixedExpiry(tokenFile.expiry),
                                           !.writer = "fix_token_timezone"]
            IN  \/ /\ fixResult' = "ok"
                   /\ backupFile' = token_data
                   /\ tokenFile' = token_data
                \/ /\ fixResult' = "failed"
                   /\ backupFile' \in {backupFile, Corrupt}
                   /\ tokenFile' = tokenFile
                \/ /\ fixResult' = "failed"
                   /\ backupFile' = token_data
                   /\ tokenFile' \in {tokenFile, Corrupt}
    /\ UNCHANGED <<pc, phase, outcome, authCtx, sendCtx, monitor, is_healthy, creds,
                   clock, history, probeLocals, configFile>>

\* the Credentials objects handed to save_token_to_json: expiry None, naive
\* UTC as the library keeps it, or aware as authenticate_gmail sets it
CredsObjects ==
    {[state |-> "refreshed", gen |-> 1, token |-> TRUE, expiry |-> e] :
        e \in {NoExpiry, Dt("none", Far, 0), Dt("aware", Far, 0)}}

\* save_token_to_json(creds), called on the constructed monitor before run():
\* writes creds.expiry.isoformat(), or None; a failure is logged and swallowed
SaveTokenToJson ==
    /\ pc = "auth_load"
    /\ phase = "startup"
    /\ \E c \in CredsObjects :
          tokenFile' \in
              {TokenJson(c.gen, c.token,
                         IF c.expiry = NoExpiry THEN NoExpiryStr ELSE Isoformat(c.expiry),
                         "save_token_to_json"),
               tokenFile, Corrupt}
    /\ UNCHANGED <<pc, phase, outcome, authCtx, sendCtx, monitor, is_healthy, creds,
                   clock, history, probeLocals, files>>

\* the edited config file with the default threshold
EditedConfig == ConfigJson("address_list", "address", DefaultSetting)

\* the monitor and the repair script on every token file: the script may run
\* before the monitor is constructed, save_token_to_json before run(), and
\* run() then authenticates
InitCred ==
    /\ pc = "load_config"
    /\ phase = "init"
    /\ outcome = "running"
    /\ authCtx = "run"
    /\ sendCtx = "alert"
    /\ config = NoConfig
    /\ configFile = EditedConfig
    /\ backupFile = AbsentFile
    /\ fixResult = "none"
    /\ probe = NoProbe
    /\ error_message = NoMessage
    /\ gmail_service = NoService
    /\ last_check_time = NoTime
    /\ consecutive_failures = 0
    /\ last_alert_sent = FALSE
    /\ is_healthy = FALSE
    /\ creds = NoCreds
    /\ tokenFile \in AllTokenFiles
    /\ clock = 0
    /\ results = <<>>
    /\ actions = <<>>
    /\ delivery = <<>>
    /\ authResult = "none"
    /\ raised = "none"
    /\ interruptedAt = "none"
    /\ syserrAttempts = 0

NextCred ==
    \/ FixTokenTimezone
    \/ SaveTokenToJson
    \/ LoadConfig
    \/ AuthLoad
    \/ AuthRefresh
    \/ AuthSave
    \/ AuthBuild

CredSpec == InitCred /\ [][NextCred]_vars

(* ======================= properties of the monitor ===================== *)
Threshold == MaxFailures(config)
NumericThreshold == config.threshold_type = "int"

\* the number of consecutive Unhealthy results ending at check i
RECURSIVE Streak(_)
Streak(i) ==
    IF i = 0 \/ results[i] = "Healthy" THEN 0 ELSE 1 + Streak(i - 1)

\* the alerts triggered in the unbroken Unhealthy run that check i belongs to
AlertsInRun(i) ==
    Cardinality({j \in (i - Streak(i) + 1)..i : actions[j] = "SendAlert"})

\* the incident update of the last probe has been made
Updated == Len(actions) = Len(results) /\ Len(results) > 0

\* C1: in a run of consecutive Unhealthy checks that starts from a reset state
\* and reaches the threshold, send_alert_email is triggered exactly once, on the
\* check that makes the streak equal to the threshold, and on no later check
C1_OneAlertPerStreak ==
    NumericThreshold =>
        \A i \in 1..Len(actions) :
            Streak(i) >= Threshold =>
                /\ actions[i] = "SendAlert" <=> Streak(i) = Threshold
                /\ AlertsInRun(i) = 1

C1_Witness ==
    /\ Threshold = DefaultThreshold
    /\ NumericThreshold
    /\ results = <<"Unhealthy", "Unhealthy", "Unhealthy">>
    /\ actions = <<"None", "SendAlert", "None">>
    /\ pc = "sleep"

\* C2: a Healthy check after any Unhealthy checks leaves consecutive_failures 0
\* and last_alert_sent false, and an Unhealthy streak after a Healthy result
\* triggers an alert when it reaches the threshold
C2_RecoveryRearms ==
    /\ Updated /\ results[Len(results)] = "Healthy" =>
           consecutive_failures = 0 /\ last_alert_sent = FALSE
    /\ NumericThreshold =>
           \A i \in 1..Len(actions) : \A j \in 1..Len(actions) :
               i < j /\ results[i] = "Healthy" /\ Streak(j) = Threshold =>
                   actions[j] = "SendAlert"

C2_Witness ==
    /\ Threshold = DefaultThreshold
    /\ results = <<"Unhealthy", "Unhealthy", "Healthy", "Unhealthy", "Unhealthy">>
    /\ actions = <<"None", "SendAlert", "None", "None", "SendAlert">>
    /\ pc = "sleep"

\* C3: last_alert_sent is true only if consecutive_failures >= the threshold
C3_LatchImpliesThreshold ==
    NumericThreshold /\ last_alert_sent => consecutive_failures >= Threshold

C3_Witness ==
    /\ pc = "sleep"
    /\ last_alert_sent
    /\ consecutive_failures > Threshold

\* C4: a check that leaves the Unhealthy streak below the threshold triggers no
\* alert and no notification attempt; send_alert_email runs only at or above it
C4_NoAlertBelowThreshold ==
    NumericThreshold =>
        /\ \A i \in 1..Len(actions) :
               Streak(i) < Threshold => actions[i] = "None" /\ delivery[i] = "none"
        /\ pc \in {"send_email", "deliver"} /\ sendCtx = "alert" =>
               consecutive_failures >= Threshold

C4_Witness ==
    /\ Threshold = DefaultThreshold
    /\ results = <<"Unhealthy", "Healthy">>
    /\ actions = <<"None", "None">>
    /\ delivery = <<"none", "none">>
    /\ authResult # "ok"
    /\ pc = "sleep"

\* C5: a Healthy check made with consecutive_failures = 0 and last_alert_sent
\* false attempts no notification or authentication and changes no monitor
\* field other than last_check_time
C5_HealthyIdempotent ==
    [][/\ consecutive_failures = 0 /\ ~last_alert_sent /\ pc = "check" /\ pc' = "track" =>
              UNCHANGED <<config, gmail_service, consecutive_failures, last_alert_sent,
                          tokenFile, authResult, delivery>>
       /\ consecutive_failures = 0 /\ ~last_alert_sent /\ pc = "track" /\ is_healthy
              /\ pc' # "done" =>
              /\ UNCHANGED <<config, gmail_service, consecutive_failures,
                             last_alert_sent, last_check_time, tokenFile, authResult,
                             syserrAttempts>>
              /\ pc' = "sleep"
              /\ actions' = Append(actions, "None")
              /\ delivery' = Append(delivery, "none")]_vars

C5_Witness ==
    /\ Len(results) >= 2
    /\ results[Len(results)] = "Healthy"
    /\ results[Len(results) - 1] = "Healthy"
    /\ Updated
    /\ pc = "sleep"
    /\ last_check_time = <<clock>>

\* C6: when the alert of an incident is issued and its delivery fails,
\* last_alert_sent is set all the same and no further alert is attempted until
\* a Healthy result has been followed by a new streak that reaches the threshold
C6_NoRetryAfterFailedDelivery ==
    \A i \in 1..Len(delivery) :
        delivery[i] = "failed" =>
            /\ i = Len(delivery) => last_alert_sent
            /\ \A j \in (i + 1)..Len(actions) :
                   actions[j] = "SendAlert" =>
                       /\ \E k \in (i + 1)..(j - 1) : results[k] = "Healthy"
                       /\ Streak(j) = Threshold

C6_Witness ==
    /\ Threshold = DefaultThreshold
    /\ results = <<"Unhealthy", "Unhealthy", "Unhealthy", "Healthy", "Unhealthy">>
    /\ delivery = <<"none", "failed", "none", "none", "none">>
    /\ authResult = "failed"
    /\ pc = "sleep"

\* C7: a missing credential, a failed authentication or refresh and a failed
\* delivery, at startup or in a check, never end the process: the startup check
\* follows a failed startup authentication, the loop's sleep follows a failed
\* alert, and once the monitor is constructed only an interrupt or an
\* unexpected exception ends the process
C7_NotificationFailureNotFatal ==
    /\ [](pc = "done" /\ config # NoConfig => interruptedAt # "none" \/ raised # "none")
    /\ [][/\ authCtx = "run" /\ authResult = "none" /\ authResult' = "failed" =>
                 pc' = "check" /\ phase' = "startup" /\ outcome' = "running"
          /\ Len(delivery) > 0 /\ Len(delivery') = Len(delivery)
                 /\ delivery[Len(delivery)] = "pending"
                 /\ delivery'[Len(delivery)] = "failed" =>
                 pc' = "sleep" /\ phase' = "loop" /\ outcome' = "running"]_vars

C7_Witness ==
    /\ tokenFile.state # "token"
    /\ authResult = "failed"
    /\ \E i \in 1..Len(delivery) : delivery[i] = "failed" /\ i < Len(results)
    /\ pc = "track"
    /\ outcome = "running"

\* C8 as claimed: an unexpected exception raised by any check of the monitor,
\* the startup check included, is caught by the scheduling loop's handler, which
\* makes one attempt to send the "system error" email before the process ends
C8_Original ==
    raised # "none" /\ pc = "done" /\ interruptedAt = "none" =>
        syserrAttempts = 1 /\ outcome = "error_exit"

\* C8 amended: an exception raised by a scheduled check is caught by the loop's
\* handler, which (unless interrupted first) makes one attempt to send the
\* "system error" email before run() returns; an exception raised by the startup
\* check escapes run(), main() exits with status 1 and no email is attempted
C8_LoopExceptionHandled ==
    /\ raised = "scheduled_check" => phase \in {"handler", "ended"}
    /\ raised = "scheduled_check" /\ pc = "done" /\ interruptedAt = "none" =>
           syserrAttempts = 1 /\ outcome = "error_exit"
    /\ raised = "startup_check" =>
           pc = "done" /\ outcome = "failed_to_start" /\ syserrAttempts = 0

C8_Witness ==
    /\ raised = "scheduled_check"
    /\ pc = "done"
    /\ interruptedAt = "none"
    /\ syserrAttempts = 1
    /\ outcome = "error_exit"

\* C9 as claimed: an interrupt during startup authentication, the startup
\* check, a sleep or a scheduled check ends the monitor by the graceful stop
\* path, with no "system error" email and no exception leaving run()
C9_Original ==
    interruptedAt \in {"startup", "loop"} =>
        outcome = "stopped" /\ syserrAttempts = 0

\* C9 amended: an interrupt during a sleep or a scheduled check ends the monitor
\* by the graceful stop path, with no "system error" email and no exception
\* leaving run(); an interrupt during startup authentication or the startup
\* check leaves run() as an uncaught KeyboardInterrupt
C9_LoopInterruptGraceful ==
    /\ interruptedAt = "loop" =>
           pc = "done" /\ outcome = "stopped" /\ syserrAttempts = 0
    /\ interruptedAt = "startup" =>
           pc = "done" /\ outcome = "interrupt_escaped" /\ syserrAttempts = 0

C9_Witness ==
    /\ interruptedAt = "loop"
    /\ outcome = "stopped"
    /\ Len(results) > Len(actions)
    /\ Len(results) > 1

\* C10: a mail service is built only from a credential that the token file
\* holds: after a successful refresh the build step is reached only once the
\* write is done, and while the refreshed credential is unsaved no service
\* exists and authentication has not reported success
C10_SavedBeforeUse ==
    /\ gmail_service # NoService =>
           Holds(tokenFile, gmail_service.gen)
    /\ pc = "auth_build" /\ creds.state = "refreshed" =>
           Holds(tokenFile, creds.gen)
    /\ creds.state = "refreshed" /\ pc # "auth_save"
           /\ ~Holds(tokenFile, creds.gen) =>
           gmail_service = NoService /\ authResult # "ok"

C10_Witness ==
    /\ gmail_service.state = "built"
    /\ creds.state = "refreshed"
    /\ gmail_service.gen = creds.gen
    /\ authResult = "ok"
    /\ pc = "deliver"

(* ===================== properties of the configuration ================= *)
\* nothing of run() has happened: no authentication, no probe, no loop
NotStarted ==
    /\ phase \in {"init", "ended"}
    /\ results = <<>>
    /\ clock = 0
    /\ last_check_time = NoTime
    /\ authResult = "none"
    /\ creds = NoCreds
    /\ gmail_service = NoService

\* the recipient list is empty, or the recipient or the sender is missing or empty
EmptyAddressConfig(cfg) ==
    /\ cfg.state = "json"
    /\ \/ cfg.recipient_email \in {"missing", "empty_str", "empty_list"}
       \/ cfg.sender_email \in {"missing", "empty_str"}

\* C17: with an empty recipient list, or a missing or empty recipient or
\* sender, startup fails with the validation error before authentication,
\* before any probe and before the loop, and the exit status is not 0
C17_EmptyAddressFatal ==
    EmptyAddressConfig(configFile) =>
        /\ pc \in {"load_config", "done"}
        /\ NotStarted
        /\ pc = "done" /\ interruptedAt = "none" =>
               outcome = "failed_to_start" /\ ExitNonZero(outcome)

C17_Witness ==
    /\ configFile.recipient_email = "empty_list"
    /\ configFile.state = "json"
    /\ pc = "done"
    /\ outcome = "failed_to_start"
    /\ interruptedAt = "none"

\* C18 as claimed: started with a config file identical to the template,
\* load_config raises the validation error and no probe is ever made
C18_Original ==
    configFile = TemplateConfig =>
        /\ pc \in {"load_config", "done"}
        /\ NotStarted
        /\ pc = "done" /\ interruptedAt = "none" =>
               outcome \in {"failed_to_start", "config_created"}

\* C19: when the config file is missing, load_config writes the template and
\* the process exits with a non-zero status without authenticating, probing
\* or entering the loop
C19_MissingConfigWritesTemplate ==
    [][configFile.state = "missing" /\ interruptedAt' = interruptedAt
           /\ pc' # "load_config" =>
           /\ configFile' = TemplateConfig
           /\ pc' = "done"
           /\ outcome' = "config_created"
           /\ ExitNonZero(outcome')
           /\ NotStarted']_vars

C19_Witness ==
    /\ outcome = "config_created"
    /\ configFile = TemplateConfig
    /\ pc = "done"
    /\ NotStarted

(* ======================== properties of the probe ====================== *)
\* C14: a response is classified Healthy exactly when its status is 200 and
\* its body holds the marker or is longer than 1000; status 200 with a body of
\* length 50 and no marker is Unhealthy for incomplete content, and every
\* other status is Unhealthy
C14_HealthyClassification ==
    pc = "track" /\ probe.kind = "response" =>
        /\ is_healthy <=>
               probe.status = 200 /\ (probe.marker \/ probe.length > 1000)
        /\ results[Len(results)] = IF is_healthy THEN "Healthy" ELSE "Unhealthy"
        /\ is_healthy <=> error_message = NoMessage
        /\ probe.status = 200 /\ probe.length = 50 /\ ~probe.marker =>
               ~is_healthy /\ error_message = "incomplete_content"
        /\ probe.status # 200 => ~is_healthy /\ error_message = "status_code"

C14_Witness ==
    /\ pc = "track"
    /\ probe = [kind |-> "response", status |-> 200, marker |-> FALSE, length |-> 50]
    /\ ~is_healthy
    /\ error_message = "incomplete_content"

\* C15: check_website never raises: whatever the probe raises, run_check gets
\* an Unhealthy result with a reason and goes on to its incident update
C15_ProbeNeverRaises ==
    [][pc = "check" /\ interruptedAt' = interruptedAt =>
           /\ pc' = "track"
           /\ raised' = "none"
           /\ outcome' = "running"
           /\ Len(results') = Len(results) + 1
           /\ probe'.kind = "exception" =>
                  /\ ~is_healthy'
                  /\ error_message' # NoMessage
                  /\ results'[Len(results')] = "Unhealthy"]_vars

C15_Witness ==
    /\ pc = "track"
    /\ phase = "loop"
    /\ probe = Exc({}, "other")
    /\ ~is_healthy
    /\ error_message = "unknown_error"

\* C16 as claimed: timeout, DNS failure, refused connection, TLS failure and
\* redirect loop each yield their own reason; an SSLError yields the SSL/TLS
\* reason and not the generic connection-error reason
C16_Original ==
    pc = "track" /\ probe.kind = "exception" =>
        /\ "SSLError" \in probe.classes => error_message = "ssl"
        /\ "Timeout" \in probe.classes => error_message = "timeout"
        /\ "TooManyRedirects" \in probe.classes => error_message = "too_many_redirects"
        /\ probe.detail = "dns" => error_message = "dns"
        /\ probe.detail = "refused" => error_message = "refused"

(* ==================== properties of the stored credential ============== *)
\* the UTC instant an expiry string denotes: a naive or Zulu time is UTC, an
\* offset time is its wall time less its offset
UTCInstant(s) == IF s.kind = "offset" THEN s.wall - s.off ELSE s.wall
Parseable(s) == s.kind \in {"naive", "zulu", "offset"}
\* authenticate_gmail has loaded the credential and decided on its validity
ValidityDecided == creds.state = "loaded" /\ authResult = "none"

\* C11: the validity check of a loaded credential never raises, a credential
\* with a token and a naive or Zulu expiry in the past is refreshed, and one
\* with an expiry in the future is used without a refresh.
\* The last part fails: every credential with a parseable expiry is refreshed.
C11_Original ==
    ValidityDecided =>
        /\ pc \in {"auth_refresh", "auth_build"}
        /\ (tokenFile.token /\ tokenFile.expiry.kind \in {"naive", "zulu"}
               /\ UTCInstant(tokenFile.expiry) <= clock) => pc = "auth_refresh"
        /\ (tokenFile.token /\ Parseable(tokenFile.expiry)
               /\ UTCInstant(tokenFile.expiry) > clock) => pc = "auth_build"

\* C12: saving an expiry and loading it again yields the same UTC instant:
\* fix_token_timezone keeps the instant of a naive, Zulu or offset expiry and
\* writes it with a Z; authenticate_gmail loads a naive, Zulu or offset expiry
\* as that instant, a naive one never shifted; and the expiry it saves after
\* a refresh loads again as the instant the refreshed credential holds.
C12_RoundTrip ==
    [][/\ (tokenFile'.writer = "fix_token_timezone" /\ tokenFile'.state = "token"
            /\ Parseable(tokenFile.expiry)) =>
              /\ tokenFile'.expiry.kind = "zulu"
              /\ UTCInstant(tokenFile'.expiry) = UTCInstant(tokenFile.expiry)
              /\ ParseExpiry(tokenFile'.expiry) = ParseExpiry(tokenFile.expiry)
       /\ (creds'.state = "loaded" /\ creds # creds' /\ Parseable(tokenFile.expiry)) =>
              creds'.expiry = Dt("aware", UTCInstant(tokenFile.expiry), 0)
       /\ (pc = "auth_save" /\ tokenFile'.writer = "refresh" /\ tokenFile'.state = "token"
            /\ creds.expiry # NoExpiry) =>
              ParseExpiry(tokenFile'.expiry) = Dt("aware", creds.expiry.wall, 0)
      ]_vars

\* an offset expiry was rewritten by fix_token_timezone and loaded by the
\* monitor as the same instant
C12_Witness ==
    /\ tokenFile.writer = "fix_token_timezone"
    /\ tokenFile.expiry = Str("zulu", Far + 5, 0)
    /\ creds.state = "loaded"
    /\ creds.expiry = Dt("aware", Far + 5, 0)

\* C13: an expiry written to the token file by the monitor or by
\* fix_token_timezone is absent or a Zulu-suffixed UTC timestamp.
\* save_token_to_json writes isoformat() as it is.
C13_Original ==
    (tokenFile.state = "token"
        /\ tokenFile.writer \in {"refresh", "save_token_to_json", "fix_token_timezone"})
    => tokenFile.expiry.kind \in {"none", "zulu"}

(* ======================== properties of the schedule =================== *)
\* a notification attempt is under way
Sending == pc \in {"send_email", "auth_load", "auth_refresh", "auth_save", "auth_build",
                   "deliver"}

\* C20: checks are strictly sequential.  The number of sleeps so far is clock,
\* of probes Len(results), of completed incident-state updates Len(actions),
\* each with its notification decision in delivery.  While the loop sleeps,
\* one check more than sleeps has run and each is complete, its notification
\* attempt included; a probe starts only when every earlier check is
\* complete; the update follows its probe; a notification attempt follows
\* its update, and only the latest check can have one under way.
C20_StrictlySequential ==
    /\ Len(delivery) = Len(actions)
    /\ Len(actions) <= Len(results)
    /\ Len(results) <= Len(actions) + 1
    /\ pc = "sleep" =>
          /\ Len(results) = clock + 1
          /\ Len(actions) = clock + 1
          /\ delivery[Len(delivery)] # "pending"
    /\ pc = "check" => Len(results) = clock /\ Len(actions) = clock
    /\ pc = "track" => Len(results) = clock + 1 /\ Len(actions) = clock
    /\ \A i \in 1..Len(delivery) :
          delivery[i] = "pending" =>
              /\ i = Len(delivery)
              /\ actions[i] = "SendAlert"
              /\ Len(results) = i
              /\ i = clock + 1
              /\ pc # "done" => Sending /\ sendCtx = "alert"

\* the loop sleeps after its third check, an earlier check having sent an alert
C20_Witness ==
    /\ pc = "sleep"
    /\ clock = 2
    /\ Len(results) = 3
    /\ \E i \in 1..Len(delivery) : delivery[i] = "sent"

(* ==================== properties of a persisting incident ============== *)
\* every check from i + 1 to the last explored one returned Unhealthy and is
\* complete
PersistsAfter(i) ==
    /\ i < MaxChecks
    /\ Len(actions) = MaxChecks
    /\ \A j \in (i + 1)..MaxChecks : results[j] = "Unhealthy"

\* C21: after the alert of an incident has been sent, a further alert is sent
\* when the checks keep returning Unhealthy, without a Healthy result in
\* between, as the text of the alert email says.
\* last_alert_sent stays True until a Healthy result, so no further alert is
\* sent however long the incident persists.
C21_Original ==
    \A i \in 1..Len(delivery) :
        delivery[i] = "sent" /\ PersistsAfter(i) =>
            \E j \in (i + 1)..MaxChecks : actions[j] = "SendAlert"

(* =================== properties of an unusable expiry ================== *)
\* C22: a stored expiry that does not parse, or a validity check that raises,
\* makes the credential invalid: authenticate_gmail refreshes it before it
\* builds the mail service.
\* An expiry that does not parse is only logged: creds.expiry stays None and a
\* credential with a token is then valid without a refresh.
C22_Original ==
    (ValidityDecided
        /\ (tokenFile.expiry = BadExpiryStr \/ CredsValid(creds, clock) = "TypeError"))
    => pc = "auth_refresh"

(* ====================== properties of the failure count ================ *)
\* C23: every Unhealthy check adds exactly 1 to consecutive_failures, also
\* after the alert of the incident was sent; with the alert sent the count
\* keeps growing and no notification is attempted; so after the update of
\* check i the count is the length of the Unhealthy streak ending at i.
C23_CountKeepsGrowing ==
    /\ [](Updated => consecutive_failures = Streak(Len(results)))
    /\ [][pc = "track" /\ ~is_healthy /\ interruptedAt' = interruptedAt =>
              /\ consecutive_failures' = consecutive_failures + 1
              /\ last_alert_sent /\ raised' = raised =>
                     /\ actions' = Append(actions, "None")
                     /\ delivery' = Append(delivery, "none")
                     /\ last_alert_sent'
                     /\ pc' = "sleep"]_vars

\* two Unhealthy checks past the alert of the incident: the count is the
\* threshold plus two and nothing further was attempted
C23_Witness ==
    /\ NumericThreshold
    /\ pc = "sleep"
    /\ last_alert_sent
    /\ consecutive_failures = Threshold + 2
    /\ Streak(Len(results)) = Threshold + 2
    /\ actions[Len(actions)] = "None"
    /\ actions[Len(actions) - 1] = "None"
    /\ actions[Len(actions) - 2] = "SendAlert"

(* ===================== properties of the repair script ================= *)
\* two files hold the same JSON content
SameContent(f, g) ==
    /\ f.state = g.state
    /\ f.gen = g.gen
    /\ f.token = g.token
    /\ f.expiry = g.expiry

\* C24: when fix_token_timezone returns True, the backup file holds the
\* content the token file had before the run, so the expiry of before the fix
\* can be read from the backup.
\* The backup is written from token_data after its expiry was rewritten.
C24_Original ==
    [][pc = "load_config" /\ pc' = "load_config" /\ fixResult' = "ok" =>
           SameContent(backupFile', tokenFile)]_vars

(* ===================== properties of the incident state ================ *)
\* C25: between two checks, while the loop runs, last_alert_sent is True
\* exactly when consecutive_failures has reached the threshold (an integer of
\* at least 1): the state is Nominal (count 0), Degrading (count below the
\* threshold) or Alerted, and never "count at the threshold, latch False".
C25_ThreeStates ==
    (pc = "sleep" /\ NumericThreshold /\ Threshold >= 1) =>
        /\ last_alert_sent <=> consecutive_failures >= Threshold
        /\ \/ consecutive_failures = 0 /\ ~last_alert_sent
           \/ 0 < consecutive_failures /\ consecutive_failures < Threshold
                /\ ~last_alert_sent
           \/ consecutive_failures >= Threshold /\ last_alert_sent

\* the loop sleeps in the Alerted state although the delivery of the alert
\* failed
C25_Witness ==
    /\ pc = "sleep"
    /\ NumericThreshold
    /\ consecutive_failures >= Threshold
    /\ last_alert_sent
    /\ delivery[Len(delivery)] = "failed"

(* ==================== properties of the credential store =============== *)
\* authenticate_gmail is running
Authenticating == pc \in {"auth_load", "auth_refresh", "auth_save", "auth_build"}
\* an email is to be sent: the alert of the latest check, or the "system
\* error" email of the handler
EmailDue ==
    \/ sendCtx = "alert" /\ Len(delivery) > 0 /\ delivery[Len(delivery)] = "pending"
    \/ sendCtx = "syserr" /\ phase = "handler"

\* C26: authenticate_gmail runs only at startup, before the first check, and
\* inside send_email when an email is due and no mail service has been built;
\* once a service is built no step reads, refreshes or writes the credential
\* or replaces the service; and a Healthy check neither authenticates nor
\* changes the credential or its file.
C26_AuthOnlyWhenNeeded ==
    /\ [](Authenticating =>
             /\ gmail_service = NoService
             /\ \/ authCtx = "run" /\ phase = "startup" /\ results = <<>>
                \/ authCtx = "send" /\ EmailDue)
    /\ [][gmail_service # NoService =>
              /\ ~Authenticating'
              /\ UNCHANGED <<tokenFile, creds, gmail_service>>]_vars
    /\ [][(pc = "check" \/ (pc = "track" /\ is_healthy)) =>
              /\ ~Authenticating'
              /\ UNCHANGED <<tokenFile, creds, gmail_service>>]_vars

\* two alerts of two incidents were delivered through the same service, the
\* token file still as the first authentication left it
C26_Witness ==
    /\ gmail_service # NoService
    /\ Holds(tokenFile, gmail_service.gen)
    /\ pc = "sleep"
    /\ \E i \in 1..Len(delivery) : \E j \in 1..Len(delivery) :
          i < j /\ delivery[i] = "sent" /\ delivery[j] = "sent"

====
